---- MODULE Spec2Model ----
(***************************************************************************)
(* The task scheduler of src/src/scheduler/task_scheduler.py: the Task     *)
(* entity, the TaskScheduler registry and its public operations, the       *)
(* job list of the `schedule` library the scheduler registers its timers   *)
(* in, the background worker thread that polls that list, and the          *)
(* persisted tasks.json file.                                              *)
(*                                                                         *)
(* Time is a natural number of seconds.  Task objects live in a heap (a    *)
(* function of object identity) because a thread that is inside           *)
(* Task.run holds a reference to the object, not to its id.  Task.run is   *)
(* split where another thread can interleave: the three guards             *)
(* (lines 121-135), the call of the work-unit (line 140, after the         *)
(* logging call of line 137), and the bookkeeping after it returns         *)
(* (lines 142-157).  The other scheduler operations take no lock either;   *)
(* they are modelled as one step each, up to an inline Task.run.           *)
(***************************************************************************)
EXTENDS Integers, FiniteSets, Sequences, TLC

\* ------------------------------------------------------------ bounds
\* The clock stops at MaxTime.
MaxTime == 2
\* No work-unit is admitted once a task has run MaxRunCount times.
MaxRunCount == 2

\* ------------------------------------------------------------ constants
\* Python's None for an optional integer or timestamp field.
None == -1
\* self.thread.join(timeout=1) of stop().
JoinTimeout == 1

TaskIds == {"t1"}
\* The threading.Thread objects start() may create, in the order it creates
\* them: a second one exists only while the first has not yet exited.
WorkerSeq == <<"w1", "w2">>
OneWorker == {WorkerSeq[1]}
TwoWorkers == {WorkerSeq[i] : i \in DOMAIN WorkerSeq}
\* The collaborator threads: the one that calls the public methods one after
\* another and whose return values are observed, and a second one that may
\* call add_task beside it.
CallerSet == {"c1"}
RacerSet == {"c2"}

\* The schedule parameters add_task is called with, for interval tasks and
\* once tasks.  interval is 60 by default and read for interval tasks only;
\* start_time is read for once tasks only.
Intervals == {1, 2}
MaxRunsChoices == {None, 1}
StartTimes == {None, 1}
EndTimes == {None, 1}

\* A cron expression is modelled by the list task.cron.split() makes of it;
\* NoCron stands for cron=None, the default, which has no split().
NoCron == <<"None">>

TaskConfigs ==
    [schedule_type : {"interval"}, interval : Intervals, cron : {NoCron},
     start_time : {None}, end_time : EndTimes, max_runs : MaxRunsChoices,
     enabled : BOOLEAN]
    \cup
    [schedule_type : {"once"}, interval : {60}, cron : {NoCron},
     start_time : StartTimes, end_time : EndTimes, max_runs : MaxRunsChoices,
     enabled : {TRUE}]

\* The cron expressions of cron tasks.  In the order of the list: cron=None;
\* every minute; 09:00 every day; 00:00 on day 2; four fields only; a
\* field that is no number; day-of-month and day-of-week both set.
CronChoices ==
    {NoCron,
     <<"*", "*", "*", "*", "*">>,
     <<"0", "9", "*", "*", "*">>,
     <<"0", "0", "2", "*", "*">>,
     <<"0", "9", "*", "*">>,
     <<"x", "9", "*", "*", "*">>,
     <<"0", "9", "1", "*", "1">>}

\* The parameters of cron tasks.
CronConfigs ==
    [schedule_type : {"cron"}, interval : {60}, cron : CronChoices,
     start_time : {None}, end_time : {None}, max_runs : {None},
     enabled : BOOLEAN]

VARIABLES
    params,     \* the Task parameters the collaborator constructs its tasks with
    now,        \* datetime.datetime.now(), in seconds
    registry,   \* self.tasks: task_id -> Task object (index into heap)
    heap,       \* the Task objects, by identity; DeadTask where there is none
    jobs,       \* the job list of the schedule module (process-wide)
    running,    \* self.running
    thread,     \* self.thread: None or the worker thread started last
    file,       \* config_dir/tasks.json: task_id -> persisted record
    pc,         \* where each thread is
    frame,      \* each thread's local variables
    wq,         \* each worker's list of runnable jobs inside run_pending
    ret,        \* what the step just taken returned to its caller, if it returned
    lastToggle, \* history: per task id, "disabled" once disable_task was called
                \* on the registered task, "reenabled" once enable_task was
                \* called right after that, "none" otherwise
    disk,       \* whether tasks.json can be read and written: "ok" or "failing"
    lastRunBy   \* history: per Task object, who set its last_run: "loop" for a
                \* firing of the worker whose job was still registered when
                \* Task.run returned, "other" for any other run, "none" while
                \* last_run is None

\* The threads a behaviour has, which its first state settles: the worker
\* threads are those with a runnable list, the observed callers those with a
\* return value, the rest are the racing callers.
Workers == DOMAIN wq
Callers == DOMAIN ret
Threads == DOMAIN pc
Racers == Threads \ (Workers \cup Callers)
\* Identities of Task objects: the registry holds one per id, and a worker
\* thread inside Task.run may hold one that the registry has dropped.
Objs == DOMAIN heap

vars == <<params, now, registry, heap, jobs, running, thread, file, pc, frame, wq, ret,
          lastToggle, disk, lastRunBy>>

\* ------------------------------------------------------------ Task
\* Task.__init__: run-state starts at zero, whatever the parameters.
NewTask(id, cfg) ==
    [task_id |-> id,
     schedule_type |-> cfg.schedule_type,
     interval |-> cfg.interval,
     cron |-> cfg.cron,
     start_time |-> cfg.start_time,
     end_time |-> cfg.end_time,
     max_runs |-> cfg.max_runs,
     enabled |-> cfg.enabled,
     run_count |-> 0,
     last_run |-> None,
     next_run |-> None,
     job |-> FALSE]

\* A collected Task object: nothing refers to it any more.
DeadTask == [NewTask("-", [schedule_type |-> "-", interval |-> 60, cron |-> NoCron,
                           start_time |-> None,
                           end_time |-> None, max_runs |-> None, enabled |-> FALSE])
             EXCEPT !.task_id = "-"]

\* The guards at the head of Task.run, in the order of the code; clock is
\* the value datetime.now() returns at line 132.
RunGuard_NoEndTime(t, clock) ==
    IF ~t.enabled THEN "disabled"
    ELSE IF t.max_runs # None /\ t.run_count >= t.max_runs THEN "max_runs"
    ELSE "go"

RunGuard_IgnoresEnabled(t, clock) ==
    IF t.max_runs # None /\ t.run_count >= t.max_runs THEN "max_runs"
    ELSE IF t.end_time # None /\ clock > t.end_time THEN "end_time"
    ELSE "go"

RunGuard(t, clock) ==
    IF ~t.enabled THEN "disabled"
    ELSE IF t.max_runs # None /\ t.run_count >= t.max_runs THEN "max_runs"
    ELSE IF t.end_time # None /\ clock > t.end_time THEN "end_time"
    ELSE "go"

\* Task.run when a guard refuses: max_runs and end_time clear enabled.
Refused_KeepsEnabled(t, why) == t

Refused(t, why) ==
    IF why \in {"max_runs", "end_time"} THEN [t EXCEPT !.enabled = FALSE] ELSE t

\* Task.run after the work-unit returned (lines 142-153).
AfterRun_KeepsNextRun(t, clock) ==
    [t EXCEPT !.run_count = @ + 1, !.last_run = clock,
              !.enabled = IF t.schedule_type = "once" THEN FALSE ELSE @]

AfterRun_NextRunNow(t, clock) ==
    LET u == [t EXCEPT !.run_count = @ + 1, !.last_run = clock] IN
    CASE t.schedule_type = "interval" -> [u EXCEPT !.next_run = clock]
      [] t.schedule_type = "once" -> [u EXCEPT !.next_run = None, !.enabled = FALSE]
      [] OTHER -> u

AfterRun(t, clock) ==
    LET u == [t EXCEPT !.run_count = @ + 1, !.last_run = clock] IN
    CASE t.schedule_type = "interval" -> [u EXCEPT !.next_run = clock + t.interval]
      [] t.schedule_type = "once" -> [u EXCEPT !.next_run = None, !.enabled = FALSE]
      [] OTHER -> u

\* datetime.isoformat / datetime.fromisoformat, and the `x.isoformat() if x
\* else None` of to_dict (a datetime is always truthy).
IsoFormat_ZeroIsNone(t) == IF t = None \/ t = 0 THEN "null" ELSE ToString(t)

IsoFormat(t) == IF t = None THEN "null" ELSE ToString(t)
FromIsoFormat(s) == IF s = "null" THEN None ELSE CHOOSE t \in 0..(2 * MaxTime + 4) : ToString(t) = s

\* Task.to_dict: everything but the callable and the job.
ToDict(t) ==
    [task_id |-> t.task_id,
     schedule_type |-> t.schedule_type,
     interval |-> t.interval,
     cron |-> t.cron,
     start_time |-> IsoFormat(t.start_time),
     end_time |-> IsoFormat(t.end_time),
     max_runs |-> t.max_runs,
     enabled |-> t.enabled,
     run_count |-> t.run_count,
     last_run |-> IsoFormat(t.last_run),
     next_run |-> IsoFormat(t.next_run)]

\* Task.from_dict: the constructor with the parameters of the record, then
\* the run-state of the record; the new Task has no job.
FromDict(d) ==
    [NewTask(d.task_id,
             [schedule_type |-> d.schedule_type,
              interval |-> d.interval,
              cron |-> d.cron,
              start_time |-> FromIsoFormat(d.start_time),
              end_time |-> FromIsoFormat(d.end_time),
              max_runs |-> d.max_runs,
              enabled |-> d.enabled])
     EXCEPT !.run_count = d.run_count,
            !.last_run = FromIsoFormat(d.last_run),
            !.next_run = FromIsoFormat(d.next_run)]

\* _save_tasks: the file is rewritten from the registry as it is now; when
\* open() raises, the file stays as it was and the handler of lines 226-227
\* logs the error.
SaveTasks(reg, h) ==
    IF disk = "ok" THEN [id \in DOMAIN reg |-> ToDict(h[reg[id]])] ELSE file

\* What a public method goes on to return after its call of _save_tasks:
\* _save_tasks lets no exception out.
AfterSave_Propagates(val) ==
    IF disk = "ok" THEN val ELSE IF val = "True" THEN "False" ELSE "None"

AfterSave(val) == val


\* ------------------------------------------------------------ _schedule_task
\* Which branch of _schedule_task a task takes at time clock.  No cron
\* branch comes to assign a job or a next_run: with cron=None
\* task.cron.split() raises (line 416), an expression that has not five
\* fields returns False (lines 418-420), and every other one calls
\* schedule.every().at(...) or schedule.every().hour.at(":0*") (lines
\* 425-430), which the library refuses with an exception, a Job made by
\* every() having no unit and ":0*" being no time.  The handler of line 475
\* swallows the exceptions.
ScheduleKind(t, clock) ==
    IF ~t.enabled THEN "skip"
    ELSE IF t.schedule_type = "interval" THEN "interval"
    ELSE IF t.schedule_type = "cron"
         THEN IF t.cron = NoCron THEN "cron_none"
              ELSE IF Len(t.cron) # 5 THEN "cron_fields"
              ELSE "cron"
    ELSE IF t.start_time # None /\ t.start_time > clock THEN "once_later"
    ELSE "once_now"

\* The Task after _schedule_task, up to the inline task.run() of a
\* once task that is due.
ScheduleTask_NoDelay(t, clock) ==
    LET k == ScheduleKind(t, clock) IN
    CASE k = "interval" -> [t EXCEPT !.job = TRUE, !.next_run = clock]
      [] k = "once_later" -> [t EXCEPT !.job = TRUE, !.next_run = t.start_time]
      [] OTHER -> [t EXCEPT !.job = FALSE]

ScheduleTask(t, clock) ==
    LET k == ScheduleKind(t, clock) IN
    CASE k = "interval" -> [t EXCEPT !.job = TRUE, !.next_run = clock + t.interval]
      [] k = "once_later" -> [t EXCEPT !.job = TRUE, !.next_run = t.start_time]
      [] OTHER -> [t EXCEPT !.job = FALSE]

\* schedule.cancel_job of the job of object o.
CancelJob_Keeps(js, o) == js

CancelJob(js, o) == {j \in js : j.obj # o}

\* The job list after _schedule_task(t), t being object o.
ScheduleJobs(js, o, t, clock) ==
    LET k == ScheduleKind(t, clock)
        kept == IF t.job THEN CancelJob(js, o) ELSE js
    IN CASE k = "interval" ->
              kept \cup {[obj |-> o, period |-> t.interval, next_run |-> clock + t.interval]}
         [] k = "once_later" ->
              kept \cup {[obj |-> o, period |-> t.start_time - clock, next_run |-> t.start_time]}
         [] OTHER -> kept

\* Lines 469-470: after the inline task.run() of a once task.
OnceDone(t) == [t EXCEPT !.next_run = None, !.enabled = FALSE]

\* disable_task, lines 372-377.
DisableEffect(t) == [t EXCEPT !.enabled = FALSE, !.job = FALSE]

\* ------------------------------------------------------------ threads
NoThread == "none"
IdleFrame == [obj |-> None, cont |-> "-", seen |-> 0, live |-> FALSE,
              wake |-> 0, todo |-> {}]
NoRet == [op |-> "-", val |-> "-"]
NoRets == [c \in Callers |-> NoRet]

Range(f) == {f[x] : x \in DOMAIN f}

\* A job a worker holds in its runnable list, or is running, stops being
\* the job of the list when it is cancelled.
Unlive(q, o) ==
    [w \in DOMAIN q |-> {IF j.obj = o THEN [j EXCEPT !.live = FALSE] ELSE j : j \in q[w]}]
UnliveFrames(fr, o) ==
    [th \in DOMAIN fr |->
        IF fr[th].obj = o /\ fr[th].cont = "loop" THEN [fr[th] EXCEPT !.live = FALSE]
        ELSE fr[th]]

\* Python frees a Task object once the registry, the threads, the runnable
\* lists and the jobs (each holds task.run, line 413) hold no reference to it.
Gc(h, reg, fr, q, js) ==
    [o \in DOMAIN h |->
        IF \/ o \in Range(reg)
           \/ \E j \in js : j.obj = o
           \/ \E th \in DOMAIN fr : fr[th].obj = o \/ o \in fr[th].todo
           \/ \E w \in DOMAIN q : \E j \in q[w] : j.obj = o
        THEN h[o] ELSE DeadTask]

\* The history of who set last_run (line 143), after a step that leaves the
\* heap as heap': thread `who` has set the last_run of object o; the history
\* of an object goes with the object when Python frees it.
LastRunBy(o, who) ==
    lastRunBy' = [x \in Objs |-> IF heap'[x] = DeadTask THEN "none"
                                 ELSE IF x = o THEN who ELSE lastRunBy[x]]
KeepLastRunBy ==
    lastRunBy' = [x \in Objs |-> IF heap'[x] = DeadTask THEN "none" ELSE lastRunBy[x]]

\* The scheduler after __init__, and the parameters of the tasks to come.
InitOn(configs, disks, workers, racers) ==
    /\ params \in configs
    /\ disk \in disks
    /\ now = 0
    /\ registry = <<>>
    /\ heap = [o \in 1..(Cardinality(TaskIds) + Cardinality(workers)) |-> DeadTask]
    /\ jobs = {}
    /\ running = FALSE
    /\ thread = NoThread
    /\ file = <<>>
    /\ pc = [th \in workers \cup CallerSet \cup racers |->
                IF th \in workers THEN "off" ELSE "idle"]
    /\ frame = [th \in workers \cup CallerSet \cup racers |-> IdleFrame]
    /\ wq = [w \in workers |-> {}]
    /\ ret = [c \in CallerSet |-> NoRet]
    /\ lastToggle = [id \in TaskIds |-> "none"]
    /\ lastRunBy = [o \in 1..(Cardinality(TaskIds) + Cardinality(workers)) |-> "none"]

\* The same with one worker thread and one caller, tasks.json being readable
\* and writable.
InitWith(configs) == InitOn(configs, {"ok"}, OneWorker, {})

Init == InitWith(TaskConfigs)

\* The same scheduler given cron tasks.
InitCron == InitWith(CronConfigs)

\* The same scheduler given tasks of any schedule type.
InitAll == InitWith(TaskConfigs \cup CronConfigs)

\* The clock advances.
Tick ==
    /\ now < MaxTime
    /\ UNCHANGED <<params, lastToggle, disk>>
    /\ now' = now + 1
    /\ ret' = NoRets
    /\ UNCHANGED <<registry, heap, jobs, running, thread, file, pc, frame, wq>>
    /\ KeepLastRunBy

Returned_AlwaysTrue(c, op, val) ==
    [d \in Callers |-> IF d = c THEN [op |-> op, val |-> "True"] ELSE NoRet]

Returned(c, op, val) ==
    [d \in Callers |-> IF d = c THEN [op |-> op, val |-> val] ELSE NoRet]

\* The frames and runnable lists after the job of task t (object o) was
\* cancelled, if it had one.
FramesAfterCancel(t, o) == IF t.job THEN UnliveFrames(frame, o) ELSE frame
WqAfterCancel(t, o) == IF t.job THEN Unlive(wq, o) ELSE wq

\* ------------------------------------------------------------ the worker
\* The next job of worker w's runnable list q, in the order of next_run
\* (schedule.run_pending sorts the runnable jobs), or back to the loop head.
\* h is the heap, js the job list.
RunNextJob(w, q, h, js) ==
    /\ jobs' = js
    /\ IF q = {}
       THEN /\ pc' = [pc EXCEPT ![w] = "top"]
            /\ frame' = [frame EXCEPT ![w] = IdleFrame]
            /\ wq' = [wq EXCEPT ![w] = {}]
       ELSE \E j \in q :
            /\ \A k \in q : j.next_run <= k.next_run
            /\ pc' = [pc EXCEPT ![w] = "run"]
            /\ frame' = [frame EXCEPT ![w] = [IdleFrame EXCEPT !.obj = j.obj,
                                                  !.cont = "loop", !.live = j.live]]
            /\ wq' = [wq EXCEPT ![w] = q \ {j}]
    /\ heap' = Gc(h, registry, frame', wq', js)

\* _run_scheduler: `while self.running`, then schedule.run_pending(), which
\* lists the jobs whose next_run has come and runs them one after another,
\* then time.sleep(1).  With nothing runnable the pass changes nothing.
WorkerTop_NeverExits(w) ==
    /\ pc[w] = "top"
    /\ UNCHANGED <<params, lastToggle, disk>>
    /\ IF running
       THEN RunNextJob(w, {[obj |-> j.obj, next_run |-> j.next_run, live |-> TRUE] :
                              j \in {k \in jobs : now >= k.next_run}}, heap, jobs)
       ELSE UNCHANGED <<heap, jobs, pc, frame, wq>>
    /\ ret' = NoRets
    /\ UNCHANGED <<now, registry, running, thread, file>>
    /\ KeepLastRunBy

WorkerTop(w) ==
    /\ pc[w] = "top"
    /\ UNCHANGED <<params, lastToggle, disk>>
    /\ IF running
       THEN RunNextJob(w, {[obj |-> j.obj, next_run |-> j.next_run, live |-> TRUE] :
                              j \in {k \in jobs : now >= k.next_run}}, heap, jobs)
       ELSE /\ pc' = [pc EXCEPT ![w] = "off"]
            /\ UNCHANGED <<heap, jobs, frame, wq>>
    /\ ret' = NoRets
    /\ UNCHANGED <<now, registry, running, thread, file>>
    /\ KeepLastRunBy

\* Job.run of the schedule library after task.run returned: the job, if it
\* is still the one in the list, is due again one period from now.
JobDone_NoReschedule(w, h) ==
    /\ RunNextJob(w, wq[w], h, jobs)
    /\ ret' = NoRets
    /\ UNCHANGED file

JobDone(w, h) ==
    /\ RunNextJob(w, wq[w], h,
                  IF frame[w].live
                  THEN {IF j.obj = frame[w].obj THEN [j EXCEPT !.next_run = now + j.period]
                        ELSE j : j \in jobs}
                  ELSE jobs)
    /\ ret' = NoRets
    /\ UNCHANGED file

\* ------------------------------------------------------------ after Task.run
\* run_task, lines 557-560: save and return the result of Task.run.
RunTaskDone(c, h, result) ==
    /\ pc' = [pc EXCEPT ![c] = "idle"]
    /\ frame' = [frame EXCEPT ![c] = IdleFrame]
    /\ heap' = Gc(h, registry, frame', wq, jobs)
    /\ file' = SaveTasks(registry, heap')
    /\ ret' = Returned(c, "run_task", AfterSave(result))
    /\ UNCHANGED <<jobs, wq>>

\* _schedule_task, lines 469-470, after the inline task.run() of a due once
\* task, and the rest of the operation that called _schedule_task.
ScheduleOnceDone(c, h) ==
    LET fr == [frame EXCEPT ![c] = [IdleFrame EXCEPT !.todo = frame[c].todo]]
        h2 == Gc([h EXCEPT ![frame[c].obj] = OnceDone(@)], registry, fr, wq, jobs)
    IN /\ heap' = h2
       /\ frame' = fr
       /\ IF frame[c].cont = "start"
          THEN /\ pc' = [pc EXCEPT ![c] = "start"]
               /\ ret' = NoRets
               /\ UNCHANGED file
          ELSE /\ pc' = [pc EXCEPT ![c] = "idle"]
               /\ file' = SaveTasks(registry, h2)
               /\ ret' = Returned(c, frame[c].cont, AfterSave("True"))
       /\ UNCHANGED <<jobs, wq>>

\* Task.run returned `result` to thread th, leaving the heap h: the code
\* that called it goes on.
Finish(th, h, result) ==
    CASE frame[th].cont = "loop" -> JobDone(th, h)
      [] frame[th].cont = "run_task" -> RunTaskDone(th, h, result)
      [] OTHER -> ScheduleOnceDone(th, h)

\* ------------------------------------------------------------ Task.run
\* Lines 121-137: the guards.  A refusal returns None at once.
RunCheck(th) ==
    /\ pc[th] = "run"
    /\ UNCHANGED <<params, lastToggle, disk>>
    /\ LET o == frame[th].obj
           why == RunGuard(heap[o], now)
       IN IF why = "go"
          THEN /\ heap[o].run_count < MaxRunCount
               /\ pc' = [pc EXCEPT ![th] = "call"]
               /\ frame' = [frame EXCEPT ![th].seen = now]
               /\ ret' = NoRets
               /\ UNCHANGED <<heap, jobs, file, wq>>
          ELSE Finish(th, [heap EXCEPT ![o] = Refused(@, why)], "None")
    /\ UNCHANGED <<now, registry, running, thread>>
    /\ KeepLastRunBy

\* Line 140: the work-unit is invoked.
RunCall(th) ==
    /\ pc[th] = "call"
    /\ UNCHANGED <<params, lastToggle, disk>>
    /\ pc' = [pc EXCEPT ![th] = "exec"]
    /\ frame' = [frame EXCEPT ![th].seen = 0]
    /\ ret' = NoRets
    /\ UNCHANGED <<now, registry, heap, jobs, running, thread, file, wq>>
    /\ KeepLastRunBy

\* What a work-unit may return: some value, or None as any Python function
\* without a return statement does.
Results == {"ok", "None"}

\* Lines 142-157: the work-unit returned; its result is returned.
RunReturn(th) ==
    /\ pc[th] = "exec"
    /\ UNCHANGED <<params, lastToggle, disk>>
    /\ \E result \in Results :
          Finish(th, [heap EXCEPT ![frame[th].obj] = AfterRun(@, now)], result)
    /\ UNCHANGED <<now, registry, running, thread>>
    /\ LastRunBy(frame[th].obj,
                 IF frame[th].cont = "loop" /\ frame[th].live THEN "loop" ELSE "other")

\* Lines 158-160: the work-unit raised; the error is logged, None returned.
RunRaise_Disables(th) ==
    /\ pc[th] = "exec"
    /\ UNCHANGED <<params, lastToggle, disk>>
    /\ Finish(th, [heap EXCEPT ![frame[th].obj].enabled = FALSE], "None")
    /\ UNCHANGED <<now, registry, running, thread>>
    /\ KeepLastRunBy

RunRaise_Counts(th) ==
    /\ pc[th] = "exec"
    /\ UNCHANGED <<params, lastToggle, disk>>
    /\ Finish(th, [heap EXCEPT ![frame[th].obj].run_count = @ + 1], "None")
    /\ UNCHANGED <<now, registry, running, thread>>
    /\ KeepLastRunBy

RunRaise(th) ==
    /\ pc[th] = "exec"
    /\ UNCHANGED <<params, lastToggle, disk>>
    /\ Finish(th, heap, "None")
    /\ UNCHANGED <<now, registry, running, thread>>
    /\ KeepLastRunBy

\* ------------------------------------------------------------ public operations
\* The identity of a newly constructed Task object.
FreeObj ==
    CHOOSE o \in Objs : heap[o] = DeadTask /\ \A p \in Objs : heap[p] = DeadTask => o <= p

\* add_task, line 241.
IsDuplicate_Never(reg, id) == FALSE

IsDuplicate(reg, id) == id \in DOMAIN reg

\* add_task.  A once task that is due runs inline (line 468): the caller
\* enters Task.run and ends the operation in ScheduleOnceDone.
AddTask(c, id) ==
    /\ pc[c] = "idle"
    /\ UNCHANGED <<params, disk>>
    /\ lastToggle' = IF IsDuplicate(registry, id) THEN lastToggle
                     ELSE [lastToggle EXCEPT ![id] = "none"]
    /\ IF IsDuplicate(registry, id)
       THEN /\ ret' = Returned(c, "add_task", "False")
            /\ UNCHANGED <<registry, heap, jobs, file, pc, frame>>
       ELSE LET o == FreeObj
                t == NewTask(id, params)
                reg == [i \in DOMAIN registry \cup {id} |->
                           IF i = id THEN o ELSE registry[i]]
                h == [heap EXCEPT ![o] = ScheduleTask(t, now)]
            IN /\ \E x \in Objs : heap[x] = DeadTask
               /\ registry' = reg
               /\ heap' = h
               /\ jobs' = ScheduleJobs(jobs, o, t, now)
               /\ IF ScheduleKind(t, now) = "once_now"
                  THEN /\ pc' = [pc EXCEPT ![c] = "run"]
                       /\ frame' = [frame EXCEPT ![c].obj = o, ![c].cont = "add_task"]
                       /\ ret' = NoRets
                       /\ UNCHANGED file
                  ELSE /\ file' = SaveTasks(reg, h)
                       /\ ret' = Returned(c, "add_task", AfterSave("True"))
                       /\ UNCHANGED <<pc, frame>>
    /\ UNCHANGED <<now, running, thread, wq>>
    /\ KeepLastRunBy

\* remove_task.
RemoveTask(c, id) ==
    /\ pc[c] = "idle"
    /\ UNCHANGED <<params, disk>>
    /\ lastToggle' = [lastToggle EXCEPT ![id] = "none"]
    /\ IF id \notin DOMAIN registry
       THEN /\ ret' = Returned(c, "remove_task", "False")
            /\ UNCHANGED <<registry, heap, jobs, file, frame, wq>>
       ELSE LET o == registry[id]
                t == heap[o]
                reg == [i \in DOMAIN registry \ {id} |-> registry[i]]
                fr == FramesAfterCancel(t, o)
                q == WqAfterCancel(t, o)
                h == Gc(heap, reg, fr, q, IF t.job THEN CancelJob(jobs, o) ELSE jobs)
            IN /\ registry' = reg
               /\ jobs' = IF t.job THEN CancelJob(jobs, o) ELSE jobs
               /\ frame' = fr
               /\ wq' = q
               /\ heap' = h
               /\ file' = SaveTasks(reg, h)
               /\ ret' = Returned(c, "remove_task", AfterSave("True"))
    /\ UNCHANGED <<now, running, thread, pc>>
    /\ KeepLastRunBy

\* enable_task.
EnableTask(c, id) ==
    /\ pc[c] = "idle"
    /\ UNCHANGED <<params, disk>>
    /\ lastToggle' = IF id \in DOMAIN registry /\ lastToggle[id] = "disabled"
                     THEN [lastToggle EXCEPT ![id] = "reenabled"]
                     ELSE [lastToggle EXCEPT ![id] = "none"]
    /\ IF id \notin DOMAIN registry
       THEN /\ ret' = Returned(c, "enable_task", "False")
            /\ UNCHANGED <<heap, jobs, file, pc, frame, wq>>
       ELSE LET o == registry[id]
                t == [heap[o] EXCEPT !.enabled = TRUE]
                h == [heap EXCEPT ![o] = ScheduleTask(t, now)]
            IN /\ heap' = h
               /\ jobs' = ScheduleJobs(jobs, o, t, now)
               /\ wq' = WqAfterCancel(t, o)
               /\ IF ScheduleKind(t, now) = "once_now"
                  THEN /\ pc' = [pc EXCEPT ![c] = "run"]
                       /\ frame' = [FramesAfterCancel(t, o) EXCEPT
                                       ![c].obj = o, ![c].cont = "enable_task"]
                       /\ ret' = NoRets
                       /\ UNCHANGED file
                  ELSE /\ file' = SaveTasks(registry, h)
                       /\ frame' = FramesAfterCancel(t, o)
                       /\ ret' = Returned(c, "enable_task", AfterSave("True"))
                       /\ UNCHANGED pc
    /\ UNCHANGED <<now, registry, running, thread>>
    /\ KeepLastRunBy

\* disable_task.
DisableTask(c, id) ==
    /\ pc[c] = "idle"
    /\ UNCHANGED <<params, disk>>
    /\ lastToggle' = IF id \in DOMAIN registry
                     THEN [lastToggle EXCEPT ![id] = "disabled"]
                     ELSE lastToggle
    /\ IF id \notin DOMAIN registry
       THEN /\ ret' = Returned(c, "disable_task", "False")
            /\ UNCHANGED <<heap, jobs, file, frame, wq>>
       ELSE LET o == registry[id]
                t == heap[o]
                h == [heap EXCEPT ![o] = DisableEffect(t)]
            IN /\ heap' = h
               /\ jobs' = IF t.job THEN CancelJob(jobs, o) ELSE jobs
               /\ wq' = WqAfterCancel(t, o)
               /\ frame' = FramesAfterCancel(t, o)
               /\ file' = SaveTasks(registry, h)
               /\ ret' = Returned(c, "disable_task", AfterSave("True"))
    /\ UNCHANGED <<now, registry, running, thread, pc>>
    /\ KeepLastRunBy

\* run_task, lines 545-555: look the task up and enter Task.run.
RunTask(c, id) ==
    /\ pc[c] = "idle"
    /\ UNCHANGED <<params, lastToggle, disk>>
    /\ IF id \notin DOMAIN registry
       THEN /\ ret' = Returned(c, "run_task", "None")
            /\ UNCHANGED <<pc, frame>>
       ELSE /\ pc' = [pc EXCEPT ![c] = "run"]
            /\ frame' = [frame EXCEPT ![c].obj = registry[id], ![c].cont = "run_task"]
            /\ ret' = NoRets
    /\ UNCHANGED <<now, registry, heap, jobs, running, thread, file, wq>>
    /\ KeepLastRunBy

\* start(), lines 483-487, called while no worker thread started earlier is
\* still alive.
Start(c) ==
    /\ pc[c] = "idle"
    /\ UNCHANGED <<params, lastToggle, disk>>
    /\ IF running
       THEN /\ ret' = Returned(c, "start", "None")
            /\ UNCHANGED <<running, pc, frame>>
       ELSE /\ \A w \in Workers : pc[w] = "off"
            /\ running' = TRUE
            /\ pc' = [pc EXCEPT ![c] = "start"]
            /\ frame' = [frame EXCEPT ![c].todo = Range(registry)]
            /\ ret' = NoRets
    /\ UNCHANGED <<now, registry, heap, jobs, thread, file, wq>>
    /\ KeepLastRunBy

\* start(), lines 490-491: _schedule_task of the next task of the registry.
StartSchedule(c) ==
    /\ pc[c] = "start"
    /\ UNCHANGED <<params, lastToggle, disk>>
    /\ \E o \in frame[c].todo :
        LET t == heap[o] IN
        /\ heap' = [heap EXCEPT ![o] = ScheduleTask(t, now)]
        /\ jobs' = ScheduleJobs(jobs, o, t, now)
        /\ wq' = WqAfterCancel(t, o)
        /\ IF ScheduleKind(t, now) = "once_now"
           THEN /\ pc' = [pc EXCEPT ![c] = "run"]
                /\ frame' = [FramesAfterCancel(t, o) EXCEPT
                                ![c].todo = @ \ {o}, ![c].obj = o, ![c].cont = "start"]
           ELSE /\ frame' = [FramesAfterCancel(t, o) EXCEPT ![c].todo = @ \ {o}]
                /\ UNCHANGED pc
    /\ ret' = NoRets
    /\ UNCHANGED <<now, registry, running, thread, file>>
    /\ KeepLastRunBy

\* start(), lines 483-487, called after a stop() whose join timed out: the
\* worker thread started earlier is still alive, and nothing in start()
\* looks at it.
Restart(c) ==
    /\ pc[c] = "idle"
    /\ UNCHANGED <<params, lastToggle, disk>>
    /\ ~running
    /\ \E w \in Workers : pc[w] # "off"
    /\ \E w \in Workers : pc[w] = "off"
    /\ running' = TRUE
    /\ pc' = [pc EXCEPT ![c] = "start"]
    /\ frame' = [frame EXCEPT ![c].todo = Range(registry)]
    /\ ret' = NoRets
    /\ UNCHANGED <<now, registry, heap, jobs, thread, file, wq>>
    /\ KeepLastRunBy

\* The thread object threading.Thread(...) makes next.
FreeWorker ==
    WorkerSeq[CHOOSE i \in DOMAIN WorkerSeq :
                 /\ WorkerSeq[i] \in Workers
                 /\ pc[WorkerSeq[i]] = "off"
                 /\ \A j \in 1..(i - 1) : pc[WorkerSeq[j]] # "off"]

\* start(), lines 494-496: the worker thread is created and started.
StartThread(c) ==
    /\ pc[c] = "start"
    /\ UNCHANGED <<params, lastToggle, disk>>
    /\ frame[c].todo = {}
    /\ \E w \in Workers : pc[w] = "off"
    /\ pc' = [pc EXCEPT ![c] = "idle", ![FreeWorker] = "top"]
    /\ thread' = FreeWorker
    /\ ret' = Returned(c, "start", "None")
    /\ UNCHANGED <<now, registry, heap, jobs, running, file, frame, wq>>
    /\ KeepLastRunBy

\* stop(), lines 504-512: clear running and wait for the worker, at most
\* JoinTimeout.
Stop_NoGuard(c) ==
    /\ pc[c] = "idle"
    /\ UNCHANGED <<params, lastToggle, disk>>
    /\ running' = FALSE
    /\ pc' = [pc EXCEPT ![c] = "join"]
    /\ frame' = [frame EXCEPT ![c].wake = now + JoinTimeout]
    /\ ret' = NoRets
    /\ UNCHANGED <<now, registry, heap, jobs, thread, file, wq>>
    /\ KeepLastRunBy

Stop(c) ==
    /\ pc[c] = "idle"
    /\ UNCHANGED <<params, lastToggle, disk>>
    /\ IF ~running
       THEN /\ ret' = Returned(c, "stop", "None")
            /\ UNCHANGED <<running, pc, frame>>
       ELSE /\ running' = FALSE
            /\ pc' = [pc EXCEPT ![c] = "join"]
            /\ frame' = [frame EXCEPT ![c].wake = now + JoinTimeout]
            /\ ret' = NoRets
    /\ UNCHANGED <<now, registry, heap, jobs, thread, file, wq>>
    /\ KeepLastRunBy

\* stop(), lines 512-516: the join ended, by the worker's exit or by the
\* timeout; the handle is dropped and the tasks are saved.
StopJoined(c) ==
    /\ pc[c] = "join"
    /\ UNCHANGED <<params, lastToggle, disk>>
    /\ \/ thread = NoThread
       \/ thread # NoThread /\ pc[thread] = "off"
       \/ now >= frame[c].wake
    /\ thread' = NoThread
    /\ pc' = [pc EXCEPT ![c] = "idle"]
    /\ frame' = [frame EXCEPT ![c] = IdleFrame]
    /\ file' = SaveTasks(registry, heap)
    /\ ret' = Returned(c, "stop", "None")
    /\ UNCHANGED <<now, registry, heap, jobs, running, wq>>
    /\ KeepLastRunBy

Next ==
    \/ Tick
    \/ \E c \in Callers, id \in TaskIds : AddTask(c, id)
    \/ \E c \in Callers, id \in TaskIds : RemoveTask(c, id)
    \/ \E c \in Callers, id \in TaskIds : EnableTask(c, id)
    \/ \E c \in Callers, id \in TaskIds : DisableTask(c, id)
    \/ \E c \in Callers, id \in TaskIds : RunTask(c, id)
    \/ \E c \in Callers : Start(c)
    \/ \E c \in Callers : StartSchedule(c)
    \/ \E c \in Callers : StartThread(c)
    \/ \E c \in Callers : Stop(c)
    \/ \E c \in Callers : StopJoined(c)
    \/ \E th \in Threads : RunCheck(th)
    \/ \E th \in Threads : RunCall(th)
    \/ \E th \in Threads : RunReturn(th)
    \/ \E th \in Threads : RunRaise(th)
    \/ \E w \in Workers : WorkerTop(w)

Spec == Init /\ [][Next]_vars

SpecCron == InitCron /\ [][Next]_vars

SpecAll == InitAll /\ [][Next]_vars

\* The scheduler when start() may also be called while the worker thread of
\* an earlier start() is still alive, given an interval task of one second.
RestartConfigs ==
    [schedule_type : {"interval"}, interval : {1}, cron : {NoCron},
     start_time : {None}, end_time : {None}, max_runs : {None}, enabled : {TRUE}]

InitRestart == InitOn(RestartConfigs, {"ok"}, TwoWorkers, {})

NextRestart ==
    \/ Next
    \/ \E c \in Callers : Restart(c)

SpecRestart == InitRestart /\ [][NextRestart]_vars

\* _load_tasks, lines 197-207: the records of the file, read into the tasks
\* the registry holds under the same id; the other records are skipped.
\* When the file cannot be read the handler of lines 210-211 logs the error
\* and nothing is loaded.
LoadTasks(reg, h, f) ==
    [o \in DOMAIN h |->
        IF disk = "ok" /\ \E id \in DOMAIN f \cap DOMAIN reg : reg[id] = o
        THEN LET d == f[CHOOSE id \in DOMAIN f \cap DOMAIN reg : reg[id] = o]
             IN [h[o] EXCEPT !.enabled = d.enabled,
                             !.run_count = d.run_count,
                             !.last_run = FromIsoFormat(d.last_run),
                             !.next_run = FromIsoFormat(d.next_run)]
        ELSE h[o]]

\* The process ends, its threads, its Task objects and the job list of the
\* schedule module with it, and a new process constructs a TaskScheduler on
\* the same config_dir (__init__, lines 174-182): the registry is empty
\* when _load_tasks reads the file.
Construct(c) ==
    /\ pc[c] = "idle"
    /\ UNCHANGED <<params, now, file, disk>>
    /\ registry' = <<>>
    /\ heap' = LoadTasks(<<>>, [o \in Objs |-> DeadTask], file)
    /\ jobs' = {}
    /\ running' = FALSE
    /\ thread' = NoThread
    /\ pc' = [th \in Threads |-> IF th \in Workers THEN "off" ELSE "idle"]
    /\ frame' = [th \in Threads |-> IdleFrame]
    /\ wq' = [w \in Workers |-> {}]
    /\ ret' = NoRets
    /\ lastToggle' = [id \in TaskIds |-> "none"]
    /\ KeepLastRunBy

\* The scheduler over several lives of the process, given an interval task
\* of one second.
NextReload ==
    \/ Next
    \/ \E c \in Callers : Construct(c)

InitReload == InitWith(RestartConfigs)

SpecReload == InitReload /\ [][NextReload]_vars

\* add_task, line 241, taken by itself: the test of the registry.  Nothing
\* holds the thread that has passed it until it stores its task (no lock is
\* taken anywhere in the class).
AddCheck(c, id) ==
    /\ pc[c] = "idle"
    /\ UNCHANGED <<params, lastToggle, disk>>
    /\ IF IsDuplicate(registry, id)
       THEN /\ ret' = Returned(c, "add_task", "False")
            /\ UNCHANGED <<pc, frame>>
       ELSE /\ pc' = [pc EXCEPT ![c] = "add"]
            /\ frame' = [frame EXCEPT ![c].cont = "add_task"]
            /\ ret' = NoRets
    /\ UNCHANGED <<now, registry, heap, jobs, running, thread, file, wq>>
    /\ KeepLastRunBy

\* add_task, lines 245-255, after the test: the task is stored under its
\* id, whatever is stored there by now, scheduled and saved.
AddStore(c, id) ==
    /\ pc[c] = "add"
    /\ UNCHANGED <<params, lastToggle, disk>>
    /\ \E x \in Objs : heap[x] = DeadTask
    /\ LET o == FreeObj
           t == NewTask(id, params)
           reg == [i \in DOMAIN registry \cup {id} |->
                      IF i = id THEN o ELSE registry[i]]
           h == Gc([heap EXCEPT ![o] = ScheduleTask(t, now)], reg, frame, wq,
                   ScheduleJobs(jobs, o, t, now))
       IN /\ registry' = reg
          /\ heap' = h
          /\ jobs' = ScheduleJobs(jobs, o, t, now)
          /\ IF ScheduleKind(t, now) = "once_now"
             THEN /\ pc' = [pc EXCEPT ![c] = "run"]
                  /\ frame' = [frame EXCEPT ![c].obj = o, ![c].cont = "add_task"]
                  /\ ret' = NoRets
                  /\ UNCHANGED file
             ELSE /\ pc' = [pc EXCEPT ![c] = "idle"]
                  /\ frame' = [frame EXCEPT ![c] = IdleFrame]
                  /\ file' = SaveTasks(reg, h)
                  /\ ret' = Returned(c, "add_task", AfterSave("True"))
    /\ UNCHANGED <<now, running, thread, wq>>
    /\ KeepLastRunBy

\* The scheduler, not started, when two collaborator threads call add_task
\* and one of them the other registry operations, given an interval task of
\* one second.
NextRace ==
    \/ Tick
    \/ \E c \in Callers \cup Racers, id \in TaskIds : AddCheck(c, id)
    \/ \E c \in Callers \cup Racers, id \in TaskIds : AddStore(c, id)
    \/ \E c \in Callers, id \in TaskIds : RemoveTask(c, id)
    \/ \E c \in Callers, id \in TaskIds : EnableTask(c, id)
    \/ \E c \in Callers, id \in TaskIds : DisableTask(c, id)

InitRace == InitOn(RestartConfigs, {"ok"}, OneWorker, RacerSet)

SpecRace == InitRace /\ [][NextRace]_vars

\* The scheduler over several lives of the process, on a config_dir whose
\* tasks.json can be read and written or cannot (the directory is read-only,
\* the disk is full), given an interval task of one second.
InitDisk == InitOn(RestartConfigs, {"ok", "failing"}, OneWorker, {})

SpecDisk == InitDisk /\ [][NextReload]_vars

\* ------------------------------------------------------------ a second scheduler
\* Another TaskScheduler of the same process, holding no task, is started:
\* its worker thread is the last of WorkerSeq.  It is never stopped, so its
\* self.running is true for as long as its worker is alive.
PeerWorker == WorkerSeq[Len(WorkerSeq)]

PeerStart ==
    /\ pc[PeerWorker] = "off"
    /\ UNCHANGED <<params, lastToggle, disk>>
    /\ pc' = [pc EXCEPT ![PeerWorker] = "top"]
    /\ ret' = NoRets
    /\ UNCHANGED <<now, registry, heap, jobs, running, thread, file, frame, wq>>
    /\ KeepLastRunBy

\* _run_scheduler of the other scheduler: schedule.run_pending() (line 527)
\* goes through the job list of the schedule module, which is the one job
\* list of the process.
PeerWorkerTop ==
    /\ pc[PeerWorker] = "top"
    /\ UNCHANGED <<params, lastToggle, disk>>
    /\ RunNextJob(PeerWorker,
                  {[obj |-> j.obj, next_run |-> j.next_run, live |-> TRUE] :
                      j \in {k \in jobs : now >= k.next_run}}, heap, jobs)
    /\ ret' = NoRets
    /\ UNCHANGED <<now, registry, running, thread, file>>
    /\ KeepLastRunBy

\* The scheduler, never started, beside the other scheduler, given an
\* interval task of one second.
NextPeer ==
    \/ Tick
    \/ \E c \in Callers, id \in TaskIds : AddTask(c, id)
    \/ \E c \in Callers, id \in TaskIds : RemoveTask(c, id)
    \/ \E c \in Callers, id \in TaskIds : EnableTask(c, id)
    \/ \E c \in Callers, id \in TaskIds : DisableTask(c, id)
    \/ \E th \in Threads : RunCheck(th)
    \/ \E th \in Threads : RunCall(th)
    \/ \E th \in Threads : RunReturn(th)
    \/ \E th \in Threads : RunRaise(th)
    \/ PeerStart
    \/ PeerWorkerTop

SpecPeer == InitRestart /\ [][NextPeer]_vars

\* ------------------------------------------------------------ to_dict / from_dict
\* Task.to_dict and Task.from_dict on their own: a Task of any parameters
\* and any run-state is written to a record, and the record is read back
\* into a new Task.
RunStates ==
    [run_count : 0..MaxRunCount,
     last_run : {None} \cup 0..MaxTime,
     next_run : {None} \cup 0..(MaxTime + 2),
     enabled : BOOLEAN]

InitDict ==
    /\ params \in TaskConfigs \cup CronConfigs
    /\ now = 0
    /\ registry = [id \in TaskIds |-> 1]
    /\ \E rs \in RunStates :
          heap = [o \in 1..2 |->
                     IF o = 1
                     THEN [NewTask("t1", params) EXCEPT !.run_count = rs.run_count,
                                                        !.last_run = rs.last_run,
                                                        !.next_run = rs.next_run,
                                                        !.enabled = rs.enabled]
                     ELSE DeadTask]
    /\ jobs = {}
    /\ running = FALSE
    /\ thread = NoThread
    /\ file = <<>>
    /\ pc = [th \in OneWorker \cup CallerSet |-> IF th \in OneWorker THEN "off" ELSE "idle"]
    /\ frame = [th \in OneWorker \cup CallerSet |-> IdleFrame]
    /\ wq = [w \in OneWorker |-> {}]
    /\ ret = [c \in CallerSet |-> NoRet]
    /\ lastToggle = [id \in TaskIds |-> "none"]
    /\ disk = "ok"
    /\ lastRunBy = [o \in 1..2 |-> "none"]

\* to_dict of every task of the registry, as _save_tasks does (line 220).
DictSave ==
    /\ file = <<>>
    /\ file' = SaveTasks(registry, heap)
    /\ UNCHANGED <<params, now, registry, heap, jobs, running, thread, pc, frame, wq,
                   ret, lastToggle, disk, lastRunBy>>

\* Task.from_dict of the record of task id: a new Task object.
DictLoad(id) ==
    /\ id \in DOMAIN file
    /\ \E o \in Objs : heap[o] = DeadTask
    /\ heap' = [heap EXCEPT ![FreeObj] = FromDict(file[id])]
    /\ UNCHANGED <<params, now, registry, jobs, running, thread, file, pc, frame, wq,
                   ret, lastToggle, disk, lastRunBy>>

NextDict ==
    \/ DictSave
    \/ \E id \in TaskIds : DictLoad(id)

SpecDict == InitDict /\ [][NextDict]_vars

\* ------------------------------------------------------------ fire time
\* Line 140 again, the thread keeping the time at which it invoked the
\* work-unit (Task.run itself keeps none: line 143 reads the clock anew).
RunCallTimed(th) ==
    /\ pc[th] = "call"
    /\ UNCHANGED <<params, lastToggle, disk>>
    /\ pc' = [pc EXCEPT ![th] = "exec"]
    /\ frame' = [frame EXCEPT ![th].seen = now]
    /\ ret' = NoRets
    /\ UNCHANGED <<now, registry, heap, jobs, running, thread, file, wq>>
    /\ KeepLastRunBy

\* The scheduler given an interval task of one second, the time of every
\* invocation of the work-unit being remembered until it returns.
InitTimed == InitWith(RestartConfigs)

NextTimed ==
    \/ Tick
    \/ \E c \in Callers, id \in TaskIds : AddTask(c, id)
    \/ \E c \in Callers, id \in TaskIds : RemoveTask(c, id)
    \/ \E c \in Callers, id \in TaskIds : EnableTask(c, id)
    \/ \E c \in Callers, id \in TaskIds : DisableTask(c, id)
    \/ \E c \in Callers, id \in TaskIds : RunTask(c, id)
    \/ \E c \in Callers : Start(c)
    \/ \E c \in Callers : StartSchedule(c)
    \/ \E c \in Callers : StartThread(c)
    \/ \E c \in Callers : Stop(c)
    \/ \E c \in Callers : StopJoined(c)
    \/ \E th \in Threads : RunCheck(th)
    \/ \E th \in Threads : RunCallTimed(th)
    \/ \E th \in Threads : RunReturn(th)
    \/ \E th \in Threads : RunRaise(th)
    \/ \E w \in Workers : WorkerTop(w)

SpecTimed == InitTimed /\ [][NextTimed]_vars

\* ------------------------------------------------------------ fairness
\* A step of the worker thread w: the head of its loop, or a step of the
\* Task.run of the job it is running.
WorkerStep(w) ==
    \/ WorkerTop(w)
    \/ RunCheck(w)
    \/ RunCall(w)
    \/ RunReturn(w)
    \/ RunRaise(w)

\* The scheduler given an interval task of one second that may run once,
\* the worker thread being scheduled again and again by the operating system
\* and every work-unit coming to an end.
StopConfigs ==
    [schedule_type : {"interval"}, interval : {1}, cron : {NoCron},
     start_time : {None}, end_time : {None}, max_runs : {1}, enabled : {TRUE}]

InitStop == InitWith(StopConfigs)

SpecStop ==
    /\ InitStop
    /\ [][Next]_vars
    /\ \A w \in OneWorker : WF_vars(WorkerStep(w))

\* The scheduler given cron tasks, the clock going on up to MaxTime, the
\* worker thread being scheduled again and again and every work-unit coming
\* to an end.
SpecCronFair ==
    /\ InitCron
    /\ [][Next]_vars
    /\ WF_vars(Tick)
    /\ \A w \in OneWorker : WF_vars(WorkerStep(w))

\* ============================================================ claims
TaskOf(id) == heap[registry[id]]
Inside(th) == pc[th] \in {"run", "call", "exec"}

\* Thread c has taken the step: it has returned from an operation or moved
\* on inside one.
Stepped(c) == pc'[c] # pc[c] \/ (c \in Callers /\ ret'[c] # NoRet)

\* What a step of the public operation op by thread c comes to: c has
\* returned from op, or has entered Task.run.
ReturnsOrRuns(c, op) == ret'[c].op = op \/ pc'[c] = "run"

\* C1: add_task with a task_id that is already registered returns False and
\* changes nothing: the registry (same ids, same Task objects), every Task
\* object's run-state and job, the job list and the persisted file.
C1_DuplicateAddRejected ==
    [][\A c \in Callers, id \in TaskIds :
          (id \in DOMAIN registry /\ AddTask(c, id))
          => /\ ret'[c] = [op |-> "add_task", val |-> "False"]
             /\ registry' = registry
             /\ heap' = heap
             /\ jobs' = jobs
             /\ file' = file]_vars

\* C1's case: a duplicate add_task has just returned False for a task that had
\* already run.
C1_Witness ==
    \E c \in Callers :
        /\ ret[c] = [op |-> "add_task", val |-> "False"]
        /\ "t1" \in DOMAIN registry
        /\ TaskOf("t1").run_count > 0

\* C2: run_count <= max_runs for every registered task with max_runs set, in
\* every reachable state.
C2_RunCountWithinMaxRuns ==
    \A id \in DOMAIN registry :
        TaskOf(id).max_runs # None => TaskOf(id).run_count <= TaskOf(id).max_runs

\* C3: once no firing is in progress, a registered task with max_runs set and
\* run_count = max_runs is disabled.
C3_ExhaustedIsDisabled ==
    \A id \in DOMAIN registry :
        (/\ TaskOf(id).max_runs # None
         /\ TaskOf(id).run_count = TaskOf(id).max_runs
         /\ \A th \in Threads : ~(Inside(th) /\ frame[th].obj = registry[id]))
        => ~TaskOf(id).enabled

\* C4: once run_count has reached max_runs, the work-unit of the task is not
\* invoked again, by whatever operation.
C4_NoFiringAfterMaxRuns ==
    [][\A th \in Threads :
          (pc[th] = "call" /\ RunCall(th))
          => LET t == heap[frame[th].obj] IN
             t.max_runs = None \/ t.run_count < t.max_runs]_vars

\* C5: the work-unit is invoked only by a Task.run whose clock reading was not
\* past end_time, and a Task.run that reads a clock past end_time leaves the
\* task disabled without invoking the work-unit.
C5_NoFiringAfterEndTime ==
    [][\A th \in Threads :
          /\ (pc[th] = "call" /\ RunCall(th))
             => LET t == heap[frame[th].obj] IN
                t.end_time = None \/ frame[th].seen <= t.end_time
          /\ (/\ pc[th] = "run"
              /\ heap[frame[th].obj].end_time # None
              /\ now > heap[frame[th].obj].end_time
              /\ RunCheck(th))
             => /\ pc'[th] # "call"
                /\ ~heap'[frame[th].obj].enabled]_vars

\* C5's case: the worker's firing attempt has just disabled an enabled,
\* unexhausted task because its end_time had passed.
C5_Witness ==
    \E id \in DOMAIN registry :
        /\ TaskOf(id).end_time # None
        /\ now > TaskOf(id).end_time
        /\ ~TaskOf(id).enabled
        /\ TaskOf(id).job
        /\ TaskOf(id).run_count = 1
        /\ TaskOf(id).max_runs = None
        /\ \A th \in Threads : ~Inside(th)


\* A step of thread c inside the Task.run that operation op called.
RunStepOf(c, op) ==
    /\ Inside(c)
    /\ frame[c].cont = op
    /\ RunCheck(c) \/ RunCall(c) \/ RunReturn(c) \/ RunRaise(c)

LimitsAllow(t, clock) ==
    /\ t.max_runs = None \/ t.run_count < t.max_runs
    /\ t.end_time = None \/ clock <= t.end_time

\* C6 as stated: run_task on a disabled task whose max_runs and end_time
\* allow a run invokes the work-unit.
C6_RunTaskIgnoresEnabled ==
    [][\A c \in Callers :
          (/\ pc[c] = "run"
           /\ frame[c].cont = "run_task"
           /\ ~heap[frame[c].obj].enabled
           /\ LimitsAllow(heap[frame[c].obj], now)
           /\ RunCheck(c))
          => pc'[c] = "call"]_vars

\* C6 amended: run_task on a disabled task returns None without invoking the
\* work-unit and leaves the task as it was; run_task on an enabled task
\* whose max_runs and end_time allow a run invokes the work-unit.
C6_RunTaskSkipsDisabled ==
    [][\A c \in Callers :
          (pc[c] = "run" /\ frame[c].cont = "run_task" /\ RunCheck(c))
          => LET o == frame[c].obj IN
             /\ ~heap[o].enabled
                => /\ ret'[c] = [op |-> "run_task", val |-> "None"]
                   /\ pc'[c] = "idle"
                   /\ heap'[o] = heap[o]
             /\ (heap[o].enabled /\ LimitsAllow(heap[o], now))
                => pc'[c] = "call"]_vars

\* C6's case: run_task has just returned None for a disabled task that no
\* limit stops, and the task has still never run.
C6_Witness ==
    \E c \in Callers, id \in DOMAIN registry :
        /\ ret[c] = [op |-> "run_task", val |-> "None"]
        /\ ~TaskOf(id).enabled
        /\ TaskOf(id).max_runs = None
        /\ TaskOf(id).end_time = None
        /\ TaskOf(id).run_count = 0

C8_DisableEnablePreserves ==
    [][\A c \in Callers, id \in TaskIds :
          id \in DOMAIN registry
          => LET o == registry[id]
                 enabling ==
                     \/ lastToggle[id] = "disabled" /\ EnableTask(c, id)
                     \/ /\ lastToggle[id] = "reenabled"
                        /\ frame[c].obj = o
                        /\ RunStepOf(c, "enable_task")
             IN /\ (DisableTask(c, id) \/ enabling)
                   => /\ heap'[o].run_count = heap[o].run_count
                      /\ heap'[o].last_run = heap[o].last_run
                /\ (enabling /\ ret'[c] = [op |-> "enable_task", val |-> "True"])
                   => /\ heap'[o].next_run # None
                      /\ heap'[o].next_run > now]_vars

\* C8 amended: disable_task preserves run_count and last_run.  enable_task
\* preserves them and returns True in one step unless the task is a once
\* task whose start_time is absent or not in the future, which enable_task
\* fires at once (it enters Task.run) and, when Task.run is over, returns
\* True for with next_run absent and the task disabled.  Otherwise next_run
\* is now + interval for an interval task and start_time for a once task,
\* both later than now.
C8_DisableEnableByType ==
    [][\A c \in Callers, id \in TaskIds :
          /\ (id \in DOMAIN registry /\ ReturnsOrRuns(c, "disable_task") /\ DisableTask(c, id))
             => /\ heap'[registry[id]].run_count = TaskOf(id).run_count
                /\ heap'[registry[id]].last_run = TaskOf(id).last_run
          /\ (id \in DOMAIN registry /\ ReturnsOrRuns(c, "enable_task") /\ EnableTask(c, id))
             => LET t == TaskOf(id)
                    u == heap'[registry[id]]
                    due == /\ t.schedule_type = "once"
                           /\ t.start_time = None \/ t.start_time <= now
                IN /\ u.run_count = t.run_count
                   /\ u.last_run = t.last_run
                   /\ u.enabled
                   /\ due <=> pc'[c] = "run"
                   /\ ~due => ret'[c] = [op |-> "enable_task", val |-> "True"]
                   /\ t.schedule_type = "interval"
                      => u.next_run = now + t.interval /\ u.next_run > now
                   /\ (t.schedule_type = "once" /\ ~due)
                      => u.next_run = t.start_time /\ u.next_run > now
          /\ (ret'[c] = [op |-> "enable_task", val |-> "True"]
              /\ RunStepOf(c, "enable_task"))
             => /\ heap'[frame[c].obj].next_run = None
                /\ ~heap'[frame[c].obj].enabled]_vars

\* C8's case: enable_task, called after disable_task, has just returned for
\* an interval task that ran before: its history is kept and its next_run is
\* one interval from now.
C8_Witness ==
    \E c \in Callers, id \in DOMAIN registry :
        /\ ret[c] = [op |-> "enable_task", val |-> "True"]
        /\ lastToggle[id] = "reenabled"
        /\ TaskOf(id).schedule_type = "interval"
        /\ TaskOf(id).run_count > 0
        /\ TaskOf(id).last_run # None
        /\ TaskOf(id).last_run < now
        /\ TaskOf(id).next_run = now + TaskOf(id).interval

\* C9: with no operation in progress, a registered task's next_run is None
\* exactly when the task is disabled or is a once task that has run.
C9_NextRunAbsentIffDisabled ==
    (\A th \in Threads : pc[th] \in {"idle", "off", "top"})
    => \A id \in DOMAIN registry :
          TaskOf(id).next_run = None
          <=> (~TaskOf(id).enabled
               \/ (TaskOf(id).schedule_type = "once" /\ TaskOf(id).run_count > 0))

\* C10: disable_task on a registered task clears enabled, cancels and drops
\* the job, clears next_run, and leaves run_count and last_run as they were.
C10_DisableClearsNextRun ==
    [][\A c \in Callers, id \in TaskIds :
          (id \in DOMAIN registry /\ DisableTask(c, id))
          => LET t == TaskOf(id)
                 u == heap'[registry[id]]
             IN /\ ~u.enabled
                /\ ~u.job
                /\ \A j \in jobs' : j.obj # registry[id]
                /\ u.next_run = None
                /\ u.run_count = t.run_count
                /\ u.last_run = t.last_run]_vars

\* get_task: the Task object registered under id, or None.
GetTask(reg, id) == IF id \in DOMAIN reg THEN reg[id] ELSE None

\* C11: remove_task on a registered id returns True, cancels the task's job,
\* deletes the registry entry and leaves no record of the id in the file;
\* after it get_task finds nothing, and an add_task on an id that is not
\* registered stores the task (it is not refused as a duplicate).
C11_RemoveErases ==
    [][\A c \in Callers, id \in TaskIds :
          /\ (id \in DOMAIN registry /\ RemoveTask(c, id))
             => /\ ret'[c] = [op |-> "remove_task", val |-> "True"]
                /\ \A j \in jobs' : j.obj # registry[id]
                /\ id \notin DOMAIN registry'
                /\ id \notin DOMAIN file'
                /\ GetTask(registry', id) = None
          /\ (id \notin DOMAIN registry /\ AddTask(c, id))
             => /\ id \in DOMAIN registry'
                /\ \/ ret'[c] = [op |-> "add_task", val |-> "True"]
                   \/ pc'[c] = "run" /\ frame'[c].cont = "add_task"]_vars

\* C11's case: remove_task has just returned True for a task whose job the
\* worker is running at that moment, and neither the registry, the job list
\* nor the file knows the id any more.
C11_Witness ==
    \E c \in Callers, w \in Workers :
        /\ ret[c] = [op |-> "remove_task", val |-> "True"]
        /\ Inside(w)
        /\ heap[frame[w].obj].task_id = "t1"
        /\ registry = <<>>
        /\ jobs = {}
        /\ file = <<>>

\* C12: for an id that is not registered, remove_task, enable_task and
\* disable_task return False and run_task returns None, in one step that
\* changes neither the registry, nor any Task object, nor the job list, nor
\* the file.
C12_UnknownIdRefused ==
    [][\A c \in Callers, id \in TaskIds :
          id \notin DOMAIN registry
          => /\ RemoveTask(c, id) => ret'[c] = [op |-> "remove_task", val |-> "False"]
             /\ EnableTask(c, id) => ret'[c] = [op |-> "enable_task", val |-> "False"]
             /\ DisableTask(c, id) => ret'[c] = [op |-> "disable_task", val |-> "False"]
             /\ RunTask(c, id) => ret'[c] = [op |-> "run_task", val |-> "None"]
             /\ (RemoveTask(c, id) \/ EnableTask(c, id) \/ DisableTask(c, id)
                 \/ RunTask(c, id))
                => /\ pc'[c] = "idle"
                   /\ registry' = registry
                   /\ heap' = heap
                   /\ jobs' = jobs
                   /\ file' = file]_vars

\* C12's case: enable_task has just returned False because the id is not
\* registered, while the worker is still running the removed task.
C12_Witness ==
    \E c \in Callers, w \in Workers :
        /\ ret[c] = [op |-> "enable_task", val |-> "False"]
        /\ registry = <<>>
        /\ Inside(w)
        /\ heap[frame[w].obj].run_count > 0

\* The cron grammar of the specification: five fields, each "*" or a
\* non-negative integer.
IsNumber(s) == \E n \in 0..59 : ToString(n) = s
Malformed(cron) ==
    \/ cron = NoCron
    \/ Len(cron) # 5
    \/ \E i \in DOMAIN cron : cron[i] # "*" /\ ~IsNumber(cron[i])

\* C13: add_task of a cron task whose expression is missing, has not five
\* fields or has a field that is neither "*" nor a number returns False in
\* that step and stores nothing: the registry and the file stay as they were.
C13_MalformedCronRejected ==
    [][\A c \in Callers, id \in TaskIds :
          (/\ id \notin DOMAIN registry
           /\ params.schedule_type = "cron"
           /\ Malformed(params.cron)
           /\ AddTask(c, id))
          => /\ ret'[c] = [op |-> "add_task", val |-> "False"]
             /\ registry' = registry
             /\ file' = file]_vars

\* A five-field expression that sets both day-of-month and day-of-week.
DayAndWeekday(cron) == Len(cron) = 5 /\ cron[3] # "*" /\ cron[5] # "*"

\* C14: add_task of a cron task whose expression sets both day-of-month and
\* day-of-week returns False, registers no job and assigns no next_run.
C14_DayAndWeekdayRejected ==
    [][\A c \in Callers, id \in TaskIds :
          (/\ id \notin DOMAIN registry
           /\ params.schedule_type = "cron"
           /\ DayAndWeekday(params.cron)
           /\ AddTask(c, id))
          => /\ ret'[c] = [op |-> "add_task", val |-> "False"]
             /\ jobs' = jobs
             /\ \A i \in DOMAIN registry' : heap'[registry'[i]].next_run = None]_vars

\* The clock counts seconds from 00:00:00 on day 1 of a month.
SecondsPerMinute == 60
MinutesPerHour == 60
HoursPerDay == 24
SecondsPerHour == SecondsPerMinute * MinutesPerHour
SecondsPerDay == SecondsPerHour * HoursPerDay
DayOf(t) == (t \div SecondsPerDay) + 1

\* The values a cron field admits, all being every value of its unit.
FieldValue(s) == CHOOSE n \in 0..59 : ToString(n) = s
FieldRange(s, all) == IF s = "*" THEN all ELSE {FieldValue(s)}

\* next_due of a cron schedule: the earliest whole minute after clock that
\* meets the minute, hour and day-of-month fields.
CronNextDue(cron, clock) ==
    LET today == DayOf(clock)
        times == {(d - 1) * SecondsPerDay + h * SecondsPerHour + m * SecondsPerMinute :
                     d \in FieldRange(cron[3], {today, today + 1}),
                     h \in FieldRange(cron[2], 0..(HoursPerDay - 1)),
                     m \in FieldRange(cron[1], 0..(MinutesPerHour - 1))}
        later == {t \in times : t > clock}
    IN CHOOSE t \in later : \A u \in later : t <= u

\* C15: when add_task registers an enabled cron task with a well-formed
\* expression that sets the minute and leaves month and day-of-week free,
\* the task's next_run is the earliest time after now that meets the minute,
\* hour and day-of-month fields.
C15_CronNextRunEarliest ==
    [][\A c \in Callers, id \in TaskIds :
          (/\ id \notin DOMAIN registry
           /\ params.schedule_type = "cron"
           /\ params.enabled
           /\ ~Malformed(params.cron)
           /\ params.cron[1] # "*"
           /\ params.cron[4] = "*" /\ params.cron[5] = "*"
           /\ AddTask(c, id))
          => /\ heap'[registry'[id]].next_run # None
             /\ heap'[registry'[id]].next_run = CronNextDue(params.cron, now)]_vars

\* C16: every timestamp a step assigns to a task's next_run is later than
\* the time of the step: whenever next_run takes a new value that is not
\* None, and whenever add_task, enable_task or start schedules an interval
\* task or a once task that is not yet due, and whenever the work-unit of an
\* interval task returns (the Task object being still referenced), next_run
\* is then greater than now.
C16_NextRunAfterNow ==
    [][/\ \A o \in Objs :
            (heap'[o].next_run # heap[o].next_run /\ heap'[o].next_run # None)
            => heap'[o].next_run > now
       /\ \A c \in Callers, id \in DOMAIN registry' :
            (/\ heap'[registry'[id]].job
             /\ \E j \in jobs' \ jobs : j.obj = registry'[id]
             /\ AddTask(c, id) \/ EnableTask(c, id) \/ StartSchedule(c))
            => /\ heap'[registry'[id]].next_run # None
               /\ heap'[registry'[id]].next_run > now
       /\ \A th \in Threads :
            (/\ pc[th] = "exec"
             /\ RunReturn(th)
             /\ heap[frame[th].obj].schedule_type = "interval"
             /\ heap'[frame[th].obj] # DeadTask)
            => /\ heap'[frame[th].obj].next_run # None
               /\ heap'[frame[th].obj].next_run > now]_vars

\* C16's case: the worker's firing of an interval task has just set
\* next_run, at a time later than the registration.
C16_Witness ==
    \E id \in DOMAIN registry :
        /\ TaskOf(id).schedule_type = "interval"
        /\ now > 0
        /\ TaskOf(id).last_run = now
        /\ TaskOf(id).next_run = now + TaskOf(id).interval
        /\ \A th \in Threads : ~Inside(th)
        /\ \E j \in jobs : j.obj = registry[id] /\ j.next_run = TaskOf(id).next_run

\* C17: add_task of an enabled once task whose start_time is in the future
\* sets next_run to start_time and does not enter Task.run; add_task of one
\* whose start_time is absent or not in the future enters Task.run at once
\* and, the limits allowing, invokes the work-unit; when the work-unit of a
\* once task returns the task is disabled and has no next_run; and neither
\* enable_task nor start invokes the work-unit of a once task that has
\* already fired.
C17_OnceNeverRecurs ==
    [][/\ \A c \in Callers, id \in TaskIds :
            (/\ id \notin DOMAIN registry
             /\ params.schedule_type = "once"
             /\ params.enabled
             /\ AddTask(c, id))
            => IF params.start_time # None /\ params.start_time > now
               THEN /\ heap'[registry'[id]].next_run = params.start_time
                    /\ pc'[c] = "idle"
               ELSE pc'[c] = "run" /\ frame'[c].cont = "add_task"
       /\ \A c \in Callers :
            (/\ pc[c] = "run"
             /\ frame[c].cont = "add_task"
             /\ LimitsAllow(heap[frame[c].obj], now)
             /\ RunCheck(c))
            => pc'[c] = "call"
       /\ \A th \in Threads :
            (/\ pc[th] = "exec"
             /\ heap[frame[th].obj].schedule_type = "once"
             /\ RunReturn(th)
             /\ heap'[frame[th].obj] # DeadTask)
            => /\ ~heap'[frame[th].obj].enabled
               /\ heap'[frame[th].obj].next_run = None
       /\ \A c \in Callers :
            (/\ pc[c] = "call"
             /\ frame[c].cont \in {"enable_task", "start"}
             /\ heap[frame[c].obj].schedule_type = "once"
             /\ RunCall(c))
            => heap[frame[c].obj].run_count = 0]_vars

\* C18 as stated: whenever a run of an interval task sets last_run anew,
\* whoever fired it, the new value is at least interval later than the
\* previous one.
C18_LastRunSpacing ==
    [][\A th \in Threads :
          (/\ pc[th] = "exec"
           /\ heap[frame[th].obj].schedule_type = "interval"
           /\ heap[frame[th].obj].last_run # None
           /\ RunReturn(th))
          => now - heap[frame[th].obj].last_run >= heap[frame[th].obj].interval]_vars

\* C18 amended: whenever a firing by the worker thread sets anew the last_run
\* of an interval task, and the previous value was set by a firing of the
\* worker whose job was still registered when it returned, the new value is
\* at least interval later than the previous one, whatever run_task,
\* disable_task, enable_task, stop and start calls come between.
C18_LoopLastRunSpacing ==
    [][\A w \in Workers :
          (/\ pc[w] = "exec"
           /\ frame[w].cont = "loop"
           /\ heap[frame[w].obj].schedule_type = "interval"
           /\ heap[frame[w].obj].last_run # None
           /\ lastRunBy[frame[w].obj] = "loop"
           /\ RunReturn(w))
          => now >= heap[frame[w].obj].last_run + heap[frame[w].obj].interval]_vars

\* C18's case: the worker has fired an interval task for the second time,
\* one interval or more after the first, the job of the first firing having
\* stayed registered.
C18_Witness ==
    \E id \in DOMAIN registry :
        /\ TaskOf(id).schedule_type = "interval"
        /\ TaskOf(id).run_count = 2
        /\ TaskOf(id).last_run = now
        /\ lastRunBy[registry[id]] = "loop"
        /\ now >= 2 * TaskOf(id).interval
        /\ \A th \in Threads : ~Inside(th)

\* C19: when the work-unit raises inside run_task, what run_task hands its
\* caller is none of the values it hands over after a successful run; when
\* the work-unit raises inside a firing of the worker, the worker goes on
\* with its pass.
C19_RunTaskFailureDistinct ==
    [][/\ \A c \in Callers :
            (pc[c] = "exec" /\ frame[c].cont = "run_task" /\ RunRaise(c))
            => /\ ret'[c].op = "run_task"
               /\ ret'[c].val \notin Results
       /\ \A w \in Workers :
            (pc[w] = "exec" /\ RunRaise(w)) => pc'[w] \in {"top", "run"}]_vars

\* C20: when the work-unit raises inside a firing of the worker, the worker
\* goes on with its pass, the Task object (while still referenced) is left
\* exactly as it was, enabled included, and the job that fired, unless it was
\* cancelled meanwhile, stays in the job list, due again one period from now.
C20_LoopFailureKeepsTask ==
    [][\A w \in Workers :
          (pc[w] = "exec" /\ frame[w].cont = "loop" /\ RunRaise(w))
          => LET o == frame[w].obj IN
             /\ pc'[w] \in {"top", "run"}
             /\ heap'[o] # DeadTask => heap'[o] = heap[o]
             /\ frame[w].live
                => /\ heap'[o] = heap[o]
                   /\ heap[o].job
                   /\ \E j \in jobs' : j.obj = o /\ j.next_run = now + j.period
                   /\ Cardinality(jobs') = Cardinality(jobs)]_vars

\* C20's case: the firing of an interval task has raised: the task is
\* enabled and has never run, its next_run is still the time of the firing
\* that failed, and its job is due again one interval later.
C20_Witness ==
    \E id \in DOMAIN registry, w \in Workers :
        /\ pc[w] = "top"
        /\ running
        /\ TaskOf(id).schedule_type = "interval"
        /\ TaskOf(id).enabled
        /\ TaskOf(id).run_count = 0
        /\ TaskOf(id).next_run = now
        /\ \E j \in jobs : j.obj = registry[id] /\ j.next_run = now + TaskOf(id).interval

\* C21: in every state at most one worker thread is alive inside
\* _run_scheduler, whatever start() and stop() calls came before.
C21_AtMostOneWorker ==
    Cardinality({w \in Workers : pc[w] # "off"}) <= 1

\* C22: stop() called while the scheduler is not running returns at once and
\* changes nothing: running, the worker handle, the registry, every Task
\* object, the job list and the persisted file are as before.
C22_StopWhenStoppedIsNoOp ==
    [][\A c \in Callers :
          (~running /\ Stop(c))
          => /\ ret'[c] = [op |-> "stop", val |-> "None"]
             /\ pc'[c] = "idle"
             /\ running' = running
             /\ thread' = thread
             /\ registry' = registry
             /\ heap' = heap
             /\ jobs' = jobs
             /\ file' = file]_vars

\* C22's case: stop() has just returned on a scheduler that was not running
\* and whose file is older than the run-state of its task (a stop() that
\* finds the scheduler running ends by saving the file).
C22_Witness ==
    \E c \in Callers, id \in DOMAIN registry :
        /\ ret[c] = [op |-> "stop", val |-> "None"]
        /\ ~running
        /\ TaskOf(id).run_count > 0
        /\ file # SaveTasks(registry, heap)

\* No thread is inside a scheduler operation or a firing.
Quiescent ==
    /\ \A c \in Callers : pc[c] = "idle"
    /\ \A w \in Workers : pc[w] \in {"off", "top"}

\* C23: whenever no operation and no firing is in progress, the file holds a
\* record for every registered task, and its enabled, run_count, last_run
\* and next_run are those of the task in memory.
C23_FileMatchesMemory ==
    Quiescent =>
        \A id \in DOMAIN registry :
            /\ id \in DOMAIN file
            /\ file[id].enabled = TaskOf(id).enabled
            /\ file[id].run_count = TaskOf(id).run_count
            /\ file[id].last_run = IsoFormat(TaskOf(id).last_run)
            /\ file[id].next_run = IsoFormat(TaskOf(id).next_run)

\* C24: when add_task registers a task under an id the file holds a record
\* of (the registry having been built anew on that file), the task then has
\* the enabled, run_count and last_run of the record, and where add_task
\* saves the file the record keeps them.
C24_RunStateSurvivesRestart ==
    [][\A c \in Callers, id \in TaskIds :
          (/\ id \in DOMAIN file
           /\ id \notin DOMAIN registry
           /\ AddTask(c, id))
          => /\ heap'[registry'[id]].enabled = file[id].enabled
             /\ heap'[registry'[id]].run_count = file[id].run_count
             /\ heap'[registry'[id]].last_run = FromIsoFormat(file[id].last_run)
             /\ file'[id].enabled = file[id].enabled
             /\ file'[id].run_count = file[id].run_count
             /\ file'[id].last_run = file[id].last_run]_vars

\* The fields of a Task that are its schedule parameters and its run-state.
Persisted(t) ==
    [f \in {"task_id", "schedule_type", "interval", "cron", "start_time", "end_time",
            "max_runs", "enabled", "run_count", "last_run", "next_run"} |-> t[f]]

\* C25: the Task that from_dict makes of a record to_dict made has the
\* schedule parameters, enabled, run_count, last_run and next_run of the
\* Task the record was made of, and the record to_dict makes has neither
\* the callable nor its arguments nor the job among its keys.
C25_DictRoundTrip ==
    [][/\ \A id \in TaskIds :
            DictLoad(id) =>
                /\ file[id] = ToDict(TaskOf(id))
                /\ Persisted(heap'[FreeObj]) = Persisted(TaskOf(id))
       /\ DictSave =>
            \A id \in DOMAIN file' :
                DOMAIN file'[id] \cap {"function", "args", "kwargs", "job"} = {}]_vars

\* C25's case: a task that has run, with last_run at time 0 and a next_run,
\* has been written to a record and read back.
C25_Witness ==
    \E o \in Objs \ Range(registry) :
        /\ heap[o] # DeadTask
        /\ heap[o].run_count > 0
        /\ heap[o].last_run = 0
        /\ heap[o].next_run > 0
        /\ ~heap[o].enabled
        /\ "t1" \in DOMAIN file

\* C26: while tasks.json can be neither read nor written, add_task,
\* remove_task, enable_task and disable_task have their effect on the
\* registry and the task and return True, run_task runs the task and returns
\* the result of the work-unit, the worker enters the firing of a job that
\* is due, and the constructor constructs the scheduler.
C26_PersistenceFailureTolerated ==
    [][disk = "failing" =>
         /\ \A c \in Callers, id \in TaskIds :
              /\ (id \notin DOMAIN registry /\ AddTask(c, id))
                 => /\ id \in DOMAIN registry'
                    /\ heap'[registry'[id]] # DeadTask
                    /\ \/ ret'[c] = [op |-> "add_task", val |-> "True"]
                       \/ pc'[c] = "run"
              /\ (id \in DOMAIN registry /\ RemoveTask(c, id))
                 => /\ id \notin DOMAIN registry'
                    /\ ret'[c] = [op |-> "remove_task", val |-> "True"]
              /\ (id \in DOMAIN registry /\ EnableTask(c, id))
                 => /\ heap'[registry[id]].enabled
                    /\ \/ ret'[c] = [op |-> "enable_task", val |-> "True"]
                       \/ pc'[c] = "run"
              /\ (id \in DOMAIN registry /\ DisableTask(c, id))
                 => /\ ~heap'[registry[id]].enabled
                    /\ ret'[c] = [op |-> "disable_task", val |-> "True"]
         /\ \A c \in Callers :
              /\ (pc[c] = "exec" /\ frame[c].cont = "run_task" /\ RunReturn(c))
                 => /\ ret'[c].op = "run_task"
                    /\ ret'[c].val \in Results
                    /\ heap'[frame[c].obj] # DeadTask
                       => heap'[frame[c].obj].run_count = heap[frame[c].obj].run_count + 1
              /\ Construct(c) => registry' = <<>> /\ pc'[c] = "idle" /\ ~running'
         /\ \A w \in Workers :
              (/\ pc[w] = "top"
               /\ running
               /\ \E j \in jobs : now >= j.next_run
               /\ WorkerTop(w))
              => pc'[w] = "run"]_vars

\* C26's case: with the file out of reach and still empty, the task was
\* added and fired by the worker, and disable_task has just returned True.
C26_Witness ==
    \E c \in Callers, id \in DOMAIN registry :
        /\ disk = "failing"
        /\ file = <<>>
        /\ ret[c] = [op |-> "disable_task", val |-> "True"]
        /\ ~TaskOf(id).enabled
        /\ TaskOf(id).run_count > 0
        /\ lastRunBy[registry[id]] = "loop"

\* C27: at no time are two threads inside add_task between its test of the
\* registry and the end of its save, and an add_task that comes to store its
\* task under an id that is registered by then does not return True.
C27_AddTaskExclusive ==
    [][/\ Cardinality({c \in Callers \cup Racers : pc'[c] = "add"}) <= 1
       /\ \A c \in Callers, id \in TaskIds :
            (id \in DOMAIN registry /\ AddStore(c, id))
            => ret'[c] # [op |-> "add_task", val |-> "True"]]_vars

\* C28: a worker thread enters the firing of a task only while the
\* scheduler in whose registry the task is (or was, the task having been
\* removed during the pass) is running: a task added to a scheduler that
\* was never started, or is stopped, is fired by no background loop.
C28_FiredOnlyByOwnLoop ==
    [][\A w \in Workers :
          (pc[w] = "top" /\ pc'[w] = "run") => running]_vars

\* C29: when Task.run is entered on a task that is disabled, or has
\* max_runs set and run_count >= max_runs, or has end_time set and
\* now > end_time, it returns without invoking the work-unit, run_count and
\* last_run are as before, and the task is then disabled.
C29_RunRefuses ==
    [][\A th \in Threads :
          LET o == frame[th].obj
              t == heap[o]
          IN (/\ pc[th] = "run"
              /\ RunCheck(th)
              /\ \/ ~t.enabled
                 \/ t.max_runs # None /\ t.run_count >= t.max_runs
                 \/ t.end_time # None /\ now > t.end_time)
             => /\ pc'[th] \notin {"call", "exec"}
                /\ th \in Callers /\ frame[th].cont = "run_task"
                   => ret'[th] = [op |-> "run_task", val |-> "None"]
                /\ heap'[o] # DeadTask
                   => /\ heap'[o].run_count = t.run_count
                      /\ heap'[o].last_run = t.last_run
                      /\ ~heap'[o].enabled]_vars

\* C29's case: Task.run, entered on an interval task after its end_time,
\* has refused: the task is disabled with its job still registered (which
\* disable_task would have cancelled), and has never run.
C29_Witness ==
    \E id \in DOMAIN registry :
        /\ TaskOf(id).schedule_type = "interval"
        /\ TaskOf(id).end_time # None
        /\ now > TaskOf(id).end_time
        /\ TaskOf(id).max_runs = None
        /\ ~TaskOf(id).enabled
        /\ TaskOf(id).job
        /\ TaskOf(id).run_count = 0
        /\ TaskOf(id).last_run = None
        /\ \A th \in Threads : ~Inside(th)

\* C30: in every state the last_run of a Task, when present, is not later
\* than now, and its next_run, when present, is later than its last_run;
\* and whenever the work-unit of an interval task, or of a cron task whose
\* expression is well formed and sets not both day-of-month and day-of-week,
\* returns and leaves the task short of its max_runs (the Task object being
\* still referenced), the task then has a next_run, later than its new
\* last_run.
C30_LastRunBeforeNextRun ==
    [][/\ \A o \in Objs :
            /\ heap'[o].last_run # None => heap'[o].last_run <= now'
            /\ (heap'[o].last_run # None /\ heap'[o].next_run # None)
               => heap'[o].next_run > heap'[o].last_run
       /\ \A th \in Threads :
            LET o == frame[th].obj IN
            (/\ pc[th] = "exec"
             /\ RunReturn(th)
             /\ heap[o].schedule_type \in {"interval", "cron"}
             /\ heap[o].schedule_type = "cron"
                => ~Malformed(heap[o].cron) /\ ~DayAndWeekday(heap[o].cron)
             /\ heap'[o] # DeadTask
             /\ heap'[o].max_runs # None => heap'[o].run_count < heap'[o].max_runs)
            => /\ heap'[o].last_run = now
               /\ heap'[o].next_run # None
               /\ heap'[o].next_run > heap'[o].last_run]_vars

\* C31: whenever the worker thread invokes the work-unit of a task in a
\* firing of its loop, the task's next_run is present and not later than
\* the current time.
C31_LoopFiresOnlyDue ==
    [][\A w \in Workers :
          (pc[w] = "call" /\ frame[w].cont = "loop" /\ RunCall(w))
          => LET t == heap[frame[w].obj] IN
             t.next_run # None /\ t.next_run <= now]_vars

\* C32: when a firing of an interval task by the worker thread ends with the
\* work-unit returning, the task's next_run is the time at which the
\* work-unit was invoked plus interval, however long the work-unit ran.
C32_DriftFree ==
    [][\A w \in Workers :
          (/\ pc[w] = "exec"
           /\ frame[w].cont = "loop"
           /\ heap[frame[w].obj].schedule_type = "interval"
           /\ RunReturn(w)
           /\ heap'[frame[w].obj] # DeadTask)
          => heap'[frame[w].obj].next_run = frame[w].seen + heap[frame[w].obj].interval]_vars

\* The run-state of a task that has never run.
NeverRun(t) == t.run_count = 0 /\ t.last_run = None

\* C33: add_task of an enabled interval task, and enable_task or the
\* _schedule_task pass of start() on an interval task that has never run,
\* leave next_run = now + interval and do not enter Task.run; and when a run
\* of an interval task ends with the work-unit returning, next_run is
\* last_run + interval.
C33_IntervalRegistration ==
    [][/\ \A c \in Callers, id \in TaskIds :
            /\ (/\ id \notin DOMAIN registry
                /\ params.schedule_type = "interval"
                /\ params.enabled
                /\ ReturnsOrRuns(c, "add_task")
                /\ AddTask(c, id))
               => /\ heap'[registry'[id]].next_run = now + params.interval
                  /\ NeverRun(heap'[registry'[id]])
                  /\ pc'[c] = "idle"
            /\ (/\ id \in DOMAIN registry
                /\ TaskOf(id).schedule_type = "interval"
                /\ NeverRun(TaskOf(id))
                /\ ReturnsOrRuns(c, "enable_task")
                /\ EnableTask(c, id))
               => /\ heap'[registry[id]].next_run = now + TaskOf(id).interval
                  /\ NeverRun(heap'[registry[id]])
                  /\ pc'[c] = "idle"
       /\ \A c \in Callers :
            (pc[c] = "start" /\ StartSchedule(c))
            => \A o \in frame[c].todo \ frame'[c].todo :
                  (/\ heap[o].schedule_type = "interval"
                   /\ heap[o].enabled
                   /\ NeverRun(heap[o]))
                  => /\ heap'[o].next_run = now + heap[o].interval
                     /\ NeverRun(heap'[o])
                     /\ pc'[c] = "start"
       /\ \A th \in Threads :
            (/\ pc[th] = "exec"
             /\ heap[frame[th].obj].schedule_type = "interval"
             /\ Stepped(th)
             /\ RunReturn(th)
             /\ heap'[frame[th].obj] # DeadTask)
            => LET u == heap'[frame[th].obj] IN
               /\ u.last_run = now
               /\ u.next_run = u.last_run + u.interval]_vars

\* C33's case: enable_task has just registered, later than its creation, an
\* interval task that has never run: next_run is one interval from now.
C33_Witness ==
    \E c \in Callers, id \in DOMAIN registry :
        /\ ret[c] = [op |-> "enable_task", val |-> "True"]
        /\ now >= 1
        /\ TaskOf(id).schedule_type = "interval"
        /\ NeverRun(TaskOf(id))
        /\ TaskOf(id).next_run = now + TaskOf(id).interval

\* C34: stop() leaves the worker and the Task.run it is inside alone; a
\* work-unit that returns after stop() was called has its run counted and
\* its last_run set; the worker that finds self.running false at the head of
\* its loop exits without running a job, and an exited worker runs nothing
\* until start() starts a thread again; and once self.running is false the
\* worker comes to exit, unless start() sets self.running again.
C34_StopLetsWorkerFinish ==
    /\ [][\A w \in Workers :
             /\ \A c \in Callers :
                   (pc[c] \in {"idle", "join"} /\ Stepped(c) /\ (Stop(c) \/ StopJoined(c)))
                   => /\ pc'[w] = pc[w]
                      /\ frame'[w] = frame[w]
                      /\ heap' = heap
             /\ (/\ pc[w] = "exec"
                 /\ ~running
                 /\ Stepped(w)
                 /\ RunReturn(w)
                 /\ heap'[frame[w].obj] # DeadTask)
                => /\ heap'[frame[w].obj].run_count = heap[frame[w].obj].run_count + 1
                   /\ heap'[frame[w].obj].last_run = now
             /\ (pc[w] = "top" /\ ~running /\ WorkerTop(w)) => pc'[w] = "off"
             /\ (pc[w] = "off" /\ pc'[w] # "off")
                => \E c \in Callers : StartThread(c)]_vars
    /\ \A w \in OneWorker : (~running) ~> (running \/ pc[w] = "off")

\* C34's case: stop() is still inside its join, the worker has exited, and
\* the run of the firing it was inside has been counted at this very time.
C34_Witness ==
    \E c \in Callers, w \in Workers, id \in DOMAIN registry :
        /\ pc[c] = "join"
        /\ frame[c].wake = now
        /\ pc[w] = "off"
        /\ ~running
        /\ TaskOf(id).run_count = 1
        /\ TaskOf(id).last_run = now
        /\ lastRunBy[registry[id]] = "loop"

\* Task id is one the worker loop is to fire: the scheduler is running with
\* its worker thread alive, the task is registered and enabled, max_runs and
\* end_time allow a run, its cron expression, if it has one, is one the
\* scheduler is to accept, and no call of the API is in progress.
Eligible(id) ==
    /\ running
    /\ \E w \in Workers : pc[w] # "off"
    /\ \A c \in Callers : pc[c] = "idle"
    /\ id \in DOMAIN registry
    /\ TaskOf(id).enabled
    /\ LimitsAllow(TaskOf(id), now)
    /\ TaskOf(id).schedule_type = "cron"
       => ~Malformed(TaskOf(id).cron) /\ ~DayAndWeekday(TaskOf(id).cron)

\* Task id is pending: it has a next_run and a timer in the job list.
Pending(id) ==
    /\ TaskOf(id).next_run # None
    /\ \E j \in jobs : j.obj = registry[id]

\* The worker is inside the work-unit of task id.
Firing(id) ==
    \E w \in Workers : pc[w] = "exec" /\ frame[w].obj = registry[id]

\* The clock has come to MaxTime with every timer of task id still to come.
ClockOut(id) ==
    /\ now = MaxTime
    /\ \A j \in jobs : j.obj = registry[id] => j.next_run > now

\* C35: a task the worker loop is to fire comes to be pending, and a pending
\* one comes to be fired by the worker, unless the API touches it or the
\* scheduler first (it is removed, disabled, exhausted, past its end_time,
\* re-registered, or the scheduler is stopped) or the clock stops before its
\* timer is due.
C35_EligibleTaskIsFired ==
    \A id \in TaskIds :
        /\ Eligible(id) ~> (~Eligible(id) \/ Pending(id))
        /\ (Eligible(id) /\ Pending(id)) ~> (~Eligible(id) \/ Firing(id) \/ ClockOut(id))

\* C36: in every state the job list holds at most one job of each Task
\* object, and at most one worker thread is inside a work-unit it invoked
\* for the job of that object that is in the list.
C36_OneTimerOneFiring ==
    \A o \in Objs :
        /\ Cardinality({j \in jobs : j.obj = o}) <= 1
        /\ Cardinality({w \in Workers : /\ pc[w] = "exec"
                                        /\ frame[w].cont = "loop"
                                        /\ frame[w].live
                                        /\ frame[w].obj = o}) <= 1

\* C37: whenever the worker thread invokes a work-unit in a firing of its
\* loop, the Task object is the one the registry holds for its id, and
\* disable_task has not been called on that id since it was last added or
\* enabled.
C37_NoFiringAfterRemoveOrDisable ==
    [][\A w \in Workers :
          (pc[w] = "call" /\ frame[w].cont = "loop" /\ RunCall(w))
          => \E id \in DOMAIN registry :
                /\ registry[id] = frame[w].obj
                /\ lastToggle[id] # "disabled"]_vars

\* The run-state fields of Task object o are after the step what they were.
SameRunState(o) ==
    /\ heap'[o].run_count = heap[o].run_count
    /\ heap'[o].last_run = heap[o].last_run
    /\ heap'[o].next_run = heap[o].next_run
    /\ heap'[o].enabled = heap[o].enabled

\* run_count counts the work-units that returned: it changes on a Task
\* object only when a work-unit of that object returns, and then by one, an
\* object that is freed or newly made having none.  A thread leaves the
\* work-unit by RunRaise or by RunReturn: a step out of it that is no raise
\* is its return.
CountsReturns ==
    /\ \A o \in Objs :
          heap'[o].run_count # heap[o].run_count
          => \/ heap'[o].run_count = 0
             \/ \E th \in Threads :
                   /\ pc[th] = "exec"
                   /\ frame[th].obj = o
                   /\ Stepped(th)
                   /\ ~RunRaise(th)
                   /\ heap'[o].run_count = heap[o].run_count + 1
    /\ \A th \in Threads :
          (/\ pc[th] = "exec"
           /\ Stepped(th)
           /\ heap'[frame[th].obj].run_count = heap[frame[th].obj].run_count
           /\ heap'[frame[th].obj] # DeadTask)
          => RunRaise(th)

====
